------------------------------ MODULE Spec2Model ------------------------------
(***************************************************************************)
(* rsgen-avro, src/templates.rs: the Templater that turns an Avro schema   *)
(* tree into Rust declarations (str_record, str_enum, str_fixed), the     *)
(* per-run type cache GenState, and the helpers array_type, map_type,     *)
(* option_type, array_default, map_default, option_default.               *)
(*                                                                         *)
(* Text is modelled as what it is: a Rust String is a sequence of Unicode  *)
(* code points, a Vec<u8> a sequence of bytes.  Lit("...") names the       *)
(* code points of a string literal of the source.                          *)
(***************************************************************************)
EXTENDS Integers, Sequences, FiniteSets, TLC

VARIABLES schema, gen_state, pc, which, result, result2, tera_ctx, last_put

vars == <<schema, gen_state, pc, which, result, result2, tera_ctx, last_put>>

-----------------------------------------------------------------------------
(* Text *)

LitTable ==
    "bool" :> <<98, 111, 111, 108>>
    @@ "i32" :> <<105, 51, 50>>
    @@ "i64" :> <<105, 54, 52>>
    @@ "f32" :> <<102, 51, 50>>
    @@ "f64" :> <<102, 54, 52>>
    @@ "Vec<u8>" :> <<86, 101, 99, 60, 117, 56, 62>>
    @@ "String" :> <<83, 116, 114, 105, 110, 103>>
    @@ "Vec<" :> <<86, 101, 99, 60>>
    @@ ">" :> <<62>>
    @@ "Option<" :> <<79, 112, 116, 105, 111, 110, 60>>
    @@ "::std::collections::HashMap<String, " :> <<58, 58, 115, 116, 100, 58, 58, 99, 111, 108, 108, 101, 99, 116, 105, 111, 110, 115, 58, 58, 72, 97, 115, 104, 77, 97, 112, 60, 83, 116, 114, 105, 110, 103, 44, 32>>
    @@ "::std::collections::HashMap::new()" :> <<58, 58, 115, 116, 100, 58, 58, 99, 111, 108, 108, 101, 99, 116, 105, 111, 110, 115, 58, 58, 72, 97, 115, 104, 77, 97, 112, 58, 58, 110, 101, 119, 40, 41>>
    @@ "vec!" :> <<118, 101, 99, 33>>
    @@ "vec![]" :> <<118, 101, 99, 33, 91, 93>>
    @@ "vec![" :> <<118, 101, 99, 33, 91>>
    @@ "]" :> <<93>>
    @@ "[" :> <<91>>
    @@ ", " :> <<44, 32>>
    @@ "\"" :> <<34>>
    @@ "\".to_owned()" :> <<34, 46, 116, 111, 95, 111, 119, 110, 101, 100, 40, 41>>
    @@ "String::default()" :> <<83, 116, 114, 105, 110, 103, 58, 58, 100, 101, 102, 97, 117, 108, 116, 40, 41>>
    @@ "::default()" :> <<58, 58, 100, 101, 102, 97, 117, 108, 116, 40, 41>>
    @@ "None" :> <<78, 111, 110, 101>>
    @@ "true" :> <<116, 114, 117, 101>>
    @@ "false" :> <<102, 97, 108, 115, 101>>
    @@ "null" :> <<110, 117, 108, 108>>
    @@ "_" :> <<95>>
    @@ "0" :> <<48>>
    @@ "-" :> <<45>>
    @@ "." :> <<46>>
    @@ "\n#[serde(default)]\n#[derive(Debug, Deserialize, Serialize)]\npub struct " :> <<10, 35, 91, 115, 101, 114, 100, 101, 40, 100, 101, 102, 97, 117, 108, 116, 41, 93, 10, 35, 91, 100, 101, 114, 105, 118, 101, 40, 68, 101, 98, 117, 103, 44, 32, 68, 101, 115, 101, 114, 105, 97, 108, 105, 122, 101, 44, 32, 83, 101, 114, 105, 97, 108, 105, 122, 101, 41, 93, 10, 112, 117, 98, 32, 115, 116, 114, 117, 99, 116, 32>>
    @@ " {" :> <<32, 123>>
    @@ "\n    #[serde(rename = \"" :> <<10, 32, 32, 32, 32, 35, 91, 115, 101, 114, 100, 101, 40, 114, 101, 110, 97, 109, 101, 32, 61, 32, 34>>
    @@ "\")]" :> <<34, 41, 93>>
    @@ "\n    pub " :> <<10, 32, 32, 32, 32, 112, 117, 98, 32>>
    @@ ": " :> <<58, 32>>
    @@ "," :> <<44>>
    @@ "\n}\n\nimpl Default for " :> <<10, 125, 10, 10, 105, 109, 112, 108, 32, 68, 101, 102, 97, 117, 108, 116, 32, 102, 111, 114, 32>>
    @@ " {\n    fn default() -> " :> <<32, 123, 10, 32, 32, 32, 32, 102, 110, 32, 100, 101, 102, 97, 117, 108, 116, 40, 41, 32, 45, 62, 32>>
    @@ " {\n        " :> <<32, 123, 10, 32, 32, 32, 32, 32, 32, 32, 32>>
    @@ "\n            " :> <<10, 32, 32, 32, 32, 32, 32, 32, 32, 32, 32, 32, 32>>
    @@ "\n        }\n    }\n}\n" :> <<10, 32, 32, 32, 32, 32, 32, 32, 32, 125, 10, 32, 32, 32, 32, 125, 10, 125, 10>>
    @@ "\n#[derive(Debug, Deserialize, Serialize)]\npub enum " :> <<10, 35, 91, 100, 101, 114, 105, 118, 101, 40, 68, 101, 98, 117, 103, 44, 32, 68, 101, 115, 101, 114, 105, 97, 108, 105, 122, 101, 44, 32, 83, 101, 114, 105, 97, 108, 105, 122, 101, 41, 93, 10, 112, 117, 98, 32, 101, 110, 117, 109, 32>>
    @@ "\n    " :> <<10, 32, 32, 32, 32>>
    @@ "\n}\n" :> <<10, 125, 10>>
    @@ "\npub type " :> <<10, 112, 117, 98, 32, 116, 121, 112, 101, 32>>
    @@ " = [u8; " :> <<32, 61, 32, 91, 117, 56, 59, 32>>
    @@ "];\n" :> <<93, 59, 10>>

RESERVED ==
    {
      <<97, 115>>,  \* "as"
      <<98, 114, 101, 97, 107>>,  \* "break"
      <<99, 111, 110, 115, 116>>,  \* "const"
      <<99, 111, 110, 116, 105, 110, 117, 101>>,  \* "continue"
      <<99, 114, 97, 116, 101>>,  \* "crate"
      <<101, 108, 115, 101>>,  \* "else"
      <<101, 110, 117, 109>>,  \* "enum"
      <<101, 120, 116, 101, 114, 110>>,  \* "extern"
      <<102, 97, 108, 115, 101>>,  \* "false"
      <<102, 110>>,  \* "fn"
      <<102, 111, 114>>,  \* "for"
      <<105, 102>>,  \* "if"
      <<105, 109, 112, 108>>,  \* "impl"
      <<105, 110>>,  \* "in"
      <<108, 101, 116>>,  \* "let"
      <<108, 111, 111, 112>>,  \* "loop"
      <<109, 97, 116, 99, 104>>,  \* "match"
      <<109, 111, 100>>,  \* "mod"
      <<109, 111, 118, 101>>,  \* "move"
      <<109, 117, 116>>,  \* "mut"
      <<112, 117, 98>>,  \* "pub"
      <<114, 101, 102>>,  \* "ref"
      <<114, 101, 116, 117, 114, 110>>,  \* "return"
      <<83, 101, 108, 102>>,  \* "Self"
      <<115, 101, 108, 102>>,  \* "self"
      <<115, 116, 97, 116, 105, 99>>,  \* "static"
      <<115, 116, 114, 117, 99, 116>>,  \* "struct"
      <<115, 117, 112, 101, 114>>,  \* "super"
      <<116, 114, 97, 105, 116>>,  \* "trait"
      <<116, 114, 117, 101>>,  \* "true"
      <<116, 121, 112, 101>>,  \* "type"
      <<117, 110, 115, 97, 103, 101>>,  \* "unsage"
      <<117, 115, 101>>,  \* "use"
      <<119, 104, 101, 114, 101>>,  \* "where"
      <<119, 104, 105, 108, 101>>,  \* "while"
      <<97, 98, 115, 116, 114, 97, 99, 116>>,  \* "abstract"
      <<97, 108, 105, 103, 110, 111, 102>>,  \* "alignof"
      <<98, 101, 99, 111, 109, 101>>,  \* "become"
      <<98, 111, 120>>,  \* "box"
      <<100, 111>>,  \* "do"
      <<102, 105, 110, 97, 108>>,  \* "final"
      <<109, 97, 99, 114, 111>>,  \* "macro"
      <<111, 102, 102, 115, 101, 116, 111, 102>>,  \* "offsetof"
      <<111, 118, 101, 114, 114, 105, 100, 101>>,  \* "override"
      <<112, 114, 105, 118>>,  \* "priv"
      <<112, 114, 111, 99>>,  \* "proc"
      <<112, 117, 114, 101>>,  \* "pure"
      <<115, 105, 122, 101, 111, 102>>,  \* "sizeof"
      <<116, 121, 112, 101, 111, 102>>,  \* "typeof"
      <<117, 110, 115, 105, 122, 101, 100>>,  \* "unsized"
      <<118, 105, 114, 116, 117, 97, 108>>,  \* "virtual"
      <<121, 105, 101, 108, 100, 115>>  \* "yields"
    }

Lit(s) == LitTable[s]

RECURSIVE Concat(_)
Concat(ss) == IF ss = <<>> THEN <<>> ELSE Head(ss) \o Concat(Tail(ss))

\* [T]::join(sep)
RECURSIVE Join(_, _)
Join(ss, sep) ==
    IF ss = <<>> THEN <<>>
    ELSE IF Len(ss) = 1 THEN ss[1]
    ELSE ss[1] \o sep \o Join(Tail(ss), sep)

\* u8::to_string / usize::to_string: decimal digits, most significant first
RECURSIVE ToDec(_)
ToDec(n) == IF n < 10 THEN <<48 + n>> ELSE ToDec(n \div 10) \o <<48 + (n % 10)>>

\* char classes of the ASCII range (the identifiers of the inputs are ASCII)
IsUpper(c) == c >= 65 /\ c <= 90
IsLower(c) == c >= 97 /\ c <= 122
IsDigit(c) == c >= 48 /\ c <= 57
IsAlphanumeric(c) == IsUpper(c) \/ IsLower(c) \/ IsDigit(c)
ToUpper(c) == IF IsLower(c) THEN c - 32 ELSE c
ToLower(c) == IF IsUpper(c) THEN c + 32 ELSE c

Lowercase(s) == [i \in 1..Len(s) |-> ToLower(s[i])]

\* String::into_bytes: the UTF-8 encoding of the code points
Utf8(c) ==
    IF c < 128 THEN <<c>>
    ELSE IF c < 2048 THEN <<192 + (c \div 64), 128 + (c % 64)>>
    ELSE <<224 + (c \div 4096), 128 + ((c \div 64) % 64), 128 + (c % 64)>>

into_bytes(s) == Concat([i \in 1..Len(s) |-> Utf8(s[i])])

\* format!("{:?}", bytes) of a Vec<u8>
DebugBytes(bytes) ==
    Lit("[") \o Join([i \in 1..Len(bytes) |-> ToDec(bytes[i])], Lit(", ")) \o Lit("]")

\* str's Ord: lexicographic on the bytes (equal to code point order under UTF-8)
RECURSIVE StrLess(_, _)
StrLess(a, b) ==
    IF b = <<>> THEN FALSE
    ELSE IF a = <<>> THEN TRUE
    ELSE IF a[1] # b[1] THEN a[1] < b[1]
    ELSE StrLess(Tail(a), Tail(b))

-----------------------------------------------------------------------------
(* heck: word splitting and the two case conversions *)

\* heck's transform(): words are split at every non-alphanumeric character, between
\* a lowercase-mode character and a following uppercase one, and before the last
\* uppercase of an uppercase run that a lowercase character follows.
RECURSIVE SplitWords(_, _, _, _, _)
SplitWords(s, i, cur, mode, acc) ==
    IF i > Len(s) THEN (IF cur = <<>> THEN acc ELSE Append(acc, cur))
    ELSE LET c == s[i]
             hasNext == i < Len(s) /\ IsAlphanumeric(s[i + 1])
             next_mode == IF IsLower(c) THEN "Lowercase"
                          ELSE IF IsUpper(c) THEN "Uppercase" ELSE mode
         IN  IF ~IsAlphanumeric(c)
             THEN SplitWords(s, i + 1, <<>>, "Boundary",
                             IF cur = <<>> THEN acc ELSE Append(acc, cur))
             ELSE IF hasNext /\ next_mode = "Lowercase" /\ IsUpper(s[i + 1])
             THEN SplitWords(s, i + 1, <<>>, "Boundary", Append(acc, Append(cur, c)))
             ELSE IF hasNext /\ mode = "Uppercase" /\ IsUpper(c) /\ IsLower(s[i + 1])
             THEN SplitWords(s, i + 1, <<c>>, "Boundary",
                             IF cur = <<>> THEN acc ELSE Append(acc, cur))
             ELSE SplitWords(s, i + 1, Append(cur, c), next_mode, acc)

Words(s) == SplitWords(s, 1, <<>>, "Boundary", <<>>)

Capitalize(w) == [i \in 1..Len(w) |-> IF i = 1 THEN ToUpper(w[i]) ELSE ToLower(w[i])]

\* heck::SnakeCase::to_snake_case
to_snake_case(s) ==
    LET ws == Words(s)
    IN  Join([i \in 1..Len(ws) |-> Lowercase(ws[i])], Lit("_"))

\* heck::CamelCase::to_camel_case (upper camel case)
to_camel_case(s) ==
    LET ws == Words(s)
    IN  Concat([i \in 1..Len(ws) |-> Capitalize(ws[i])])

\* fn sanitize(s): the reserved-word suffix
sanitize(s) == IF s \in RESERVED THEN s \o Lit("_") ELSE s

-----------------------------------------------------------------------------
(* Data: serde_json::Value, avro_rs::Schema, RecordField, Result *)

\* serde_json::Number: N::PosInt(u64) | N::NegInt(i64) | N::Float(f64), kept with
\* its decimal text (what Display prints); a NegInt's text starts with '-'.
Num(tag, text) == [tag |-> tag, text |-> text]
NoNum == Num("PosInt", <<>>)

\* serde_json::Value, and Option<Value>'s None as the kind "Absent"
Val(t, b, n, s, a) == [t |-> t, b |-> b, n |-> n, s |-> s, a |-> a]
NoDefault == Val("Absent", FALSE, NoNum, <<>>, <<>>)
VNull == Val("Null", FALSE, NoNum, <<>>, <<>>)
VBool(b) == Val("Bool", b, NoNum, <<>>, <<>>)
VNumber(n) == Val("Number", FALSE, n, <<>>, <<>>)
VString(s) == Val("String", FALSE, NoNum, s, <<>>)
VArray(a) == Val("Array", FALSE, NoNum, <<>>, a)
VObject == Val("Object", FALSE, NoNum, <<>>, <<>>)

\* i64::MAX
I64Max == <<57, 50, 50, 51, 51, 55, 50, 48, 51, 54, 56, 53, 52, 55, 55, 53, 56, 48, 55>>

\* decimal texts without sign or leading zeros: a <= b
DecLeq(a, b) == Len(a) < Len(b) \/ (Len(a) = Len(b) /\ ~StrLess(b, a))

\* Number::is_i64: NegInt always, PosInt(v) when v <= i64::MAX, Float never
is_i64(n) ==
    \/ n.tag = "NegInt"
    \/ n.tag = "PosInt" /\ DecLeq(n.text, I64Max)

\* a mutation of is_f64: an integer counts as a float
is_f64_or_int(n) == TRUE

\* Number::is_f64
is_f64(n) == n.tag = "Float"

\* avro_rs::Schema: one node of the tree.  addr is the node's address, the identity
\* ByAddress compares; inner holds Array's items, Map's values or Union's variants.
Node(kind, addr, name, size, symbols, inner, fields) ==
    [kind |-> kind, addr |-> addr, name |-> name, size |-> size,
     symbols |-> symbols, inner |-> inner, fields |-> fields]

Prim(kind, addr) == Node(kind, addr, <<>>, 0, <<>>, <<>>, <<>>)
Fixed(addr, name, size) == Node("Fixed", addr, name, size, <<>>, <<>>, <<>>)
Enum(addr, name, symbols) == Node("Enum", addr, name, 0, symbols, <<>>, <<>>)
Array(addr, items) == Node("Array", addr, <<>>, 0, <<>>, <<items>>, <<>>)
Map(addr, values) == Node("Map", addr, <<>>, 0, <<>>, <<values>>, <<>>)
Union(addr, variants) == Node("Union", addr, <<>>, 0, <<>>, variants, <<>>)
Record(addr, name, fields) == Node("Record", addr, name, 0, <<>>, <<>>, fields)

RecordField(name, sch, default) == [name |-> name, schema |-> sch, default |-> default]

\* Result<String, TemplateError>: the error is its message, kept as the format
\* string's prefix and the value it prints
Ok(v) == [ok |-> TRUE, val |-> v, msg |-> "", arg |-> <<>>]
Err(msg, arg) == [ok |-> FALSE, val |-> <<>>, msg |-> msg, arg |-> arg]

-----------------------------------------------------------------------------
(* GenState: HashMap<ByAddress<&Schema>, String> *)

\* GenState::new
GenState_new == <<>>

\* a mutation of put_type: an entry, once made, is kept
put_type_keep_first(gs, addr, t) ==
    [a \in (DOMAIN gs) \cup {addr} |-> IF a \in DOMAIN gs THEN gs[a] ELSE t]

\* GenState::put_type: HashMap::insert replaces the entry of an equal key
put_type(gs, addr, t) == [a \in (DOMAIN gs) \cup {addr} |-> IF a = addr THEN t ELSE gs[a]]

\* GenState::get_type
get_type(gs, node) ==
    IF node.addr \in DOMAIN gs THEN Ok(gs[node.addr]) ELSE Err("None", <<>>)

\* The iteration order of a std HashMap depends on its RandomState: the keys come
\* in one of the orders the hasher can produce, here ascending or descending.
RECURSIVE SortedInts(_)
SortedInts(S) ==
    IF S = {} THEN <<>>
    ELSE LET m == CHOOSE x \in S : \A y \in S : x <= y
         IN  <<m>> \o SortedInts(S \ {m})

Reverse(s) == [i \in 1..Len(s) |-> s[Len(s) + 1 - i]]

HashIter(sorted, seed) == IF seed = 0 THEN sorted ELSE Reverse(sorted)

\* {:?} of a GenState: its entries in the map's iteration order
DebugGenState(gs, seed) ==
    LET ks == HashIter(SortedInts(DOMAIN gs), seed)
    IN  [i \in 1..Len(ks) |-> <<ks[i], gs[ks[i]]>>]

-----------------------------------------------------------------------------
(* Type resolution of a container's inner schema *)

Primitives == {"Boolean", "Int", "Long", "Float", "Double", "Bytes", "String"}

\* the Rust type of a primitive schema, as the match arms spell it
PrimType(kind) ==
    CASE kind = "Boolean" -> Lit("bool")
      [] kind = "Int" -> Lit("i32")
      [] kind = "Long" -> Lit("i64")
      [] kind = "Float" -> Lit("f32")
      [] kind = "Double" -> Lit("f64")
      [] kind = "Bytes" -> Lit("Vec<u8>")
      [] kind = "String" -> Lit("String")

\* a mutation of inner_type: a nested container is named like a named type, from
\* its (empty) name, and the cache is not read
inner_type_no_cache(inner, gs, seed) ==
    CASE inner.kind \in Primitives -> Ok(PrimType(inner.kind))
      [] inner.kind \in {"Fixed", "Record", "Enum", "Array", "Map", "Union"} ->
            Ok(sanitize(to_camel_case(inner.name)))
      [] inner.kind = "Null" -> Err("Invalid use of Schema::Null", <<>>)

\* the match on `inner` that array_type, map_type and option_type share: the name
\* of the inner type, before the container wraps it
inner_type(inner, gs, seed) ==
    CASE inner.kind \in Primitives -> Ok(PrimType(inner.kind))
      [] inner.kind = "Fixed" -> Ok(sanitize(to_camel_case(inner.name)))
      [] inner.kind \in {"Array", "Map", "Union"} ->
            LET nested_type == get_type(gs, inner)
            IN  IF nested_type.ok THEN nested_type
                ELSE Err("Didn't find schema {:?} in state {:?}",
                         <<inner.addr, DebugGenState(gs, seed)>>)
      [] inner.kind \in {"Record", "Enum"} -> Ok(sanitize(to_camel_case(inner.name)))
      [] inner.kind = "Null" -> Err("Invalid use of Schema::Null", <<>>)

Wrap(r, open, close) == IF r.ok THEN Ok(open \o r.val \o close) ELSE r

\* pub fn array_type
array_type(inner, gs, seed) == Wrap(inner_type(inner, gs, seed), Lit("Vec<"), Lit(">"))

\* fn map_of and pub fn map_type
map_of(t) == Lit("::std::collections::HashMap<String, ") \o t \o Lit(">")

map_type(inner, gs, seed) ==
    LET r == inner_type(inner, gs, seed) IN IF r.ok THEN Ok(map_of(r.val)) ELSE r

\* pub fn option_type
option_type(inner, gs, seed) == Wrap(inner_type(inner, gs, seed), Lit("Option<"), Lit(">"))

-----------------------------------------------------------------------------
(* Defaults *)

\* fn map_default
map_default(inner, default) == Ok(Lit("::std::collections::HashMap::new()"))

\* fn option_default
option_default(inner, default) ==
    CASE default.t = "Absent" -> Ok(Lit("None"))
      [] default.t = "String" /\ default.s = Lit("null") -> Ok(Lit("None"))
      [] default.t = "String" /\ default.s # Lit("null") -> Err("Invalid default: ", default.s)
      [] OTHER -> Err("Invalid default: ", default)

\* the first error of a sequence of results, or all the values
\* (Iterator::collect::<Result<Vec<_>, _>>)
RECURSIVE Collect(_, _)
Collect(rs, acc) ==
    IF rs = <<>> THEN Ok(acc)
    ELSE IF ~Head(rs).ok THEN Head(rs)
    ELSE Collect(Tail(rs), Append(acc, Head(rs).val))

RECURSIVE array_default(_, _)
RECURSIVE to_default_str(_, _)

\* the closure to_default_str that array_default builds for the item schema
to_default_str(inner, v) ==
    CASE inner.kind = "Boolean" ->
            IF v.t = "Bool" THEN Ok(IF v.b THEN Lit("true") ELSE Lit("false"))
            ELSE Err("Invalid defaults: ", v)
      [] inner.kind \in {"Int", "Long"} ->
            IF v.t = "Number" /\ is_i64(v.n) THEN Ok(v.n.text)
            ELSE Err("Invalid defaults: ", v)
      [] inner.kind \in {"Float", "Double"} ->
            IF v.t = "Number" /\ is_f64(v.n) THEN Ok(v.n.text)
            ELSE Err("Invalid defaults: ", v)
      [] inner.kind = "Bytes" ->
            IF v.t = "String" THEN Ok(Lit("vec!") \o DebugBytes(into_bytes(v.s)))
            ELSE Err("Invalid defaults: ", v)
      [] inner.kind = "String" ->
            IF v.t = "String" THEN Ok(v.s) ELSE Err("Invalid defaults: ", v)
      [] inner.kind = "Fixed" ->
            IF v.t = "String"
            THEN LET bytes == into_bytes(v.s)
                 IN  IF Len(bytes) = inner.size THEN Ok(DebugBytes(bytes))
                     ELSE Err("Invalid defaults: ", bytes)
            ELSE Err("Invalid defaults: ", v)
      [] inner.kind = "Array" -> array_default(inner.inner[1], v)
      [] inner.kind = "Map" -> map_default(inner.inner[1], v)
      [] inner.kind = "Enum" ->
            LET valids == {sanitize(to_camel_case(inner.symbols[i])) :
                              i \in 1..Len(inner.symbols)}
            IN  IF v.t = "String"
                THEN LET s == sanitize(to_camel_case(v.s))
                     IN  IF s \in valids THEN Ok(s) ELSE Err("Invalid defaults: ", s)
                ELSE Err("Invalid defaults: ", v)
      [] inner.kind = "Union" -> Ok(Lit("None"))
      [] inner.kind = "Record" ->
            Ok(sanitize(to_camel_case(inner.name)) \o Lit("::default()"))

\* fn array_default
array_default(inner, default) ==
    IF inner.kind = "Null" THEN Err("Invalid use of Schema::Null", <<>>)
    ELSE IF default.t = "Array"
    THEN LET vals == Collect([i \in 1..Len(default.a) |->
                                 to_default_str(inner, default.a[i])], <<>>)
         IN  IF vals.ok
             THEN Ok(Lit("vec![") \o Join(vals.val, Lit(", ")) \o Lit("]"))
             ELSE vals
    ELSE Ok(Lit("vec![]"))

-----------------------------------------------------------------------------
(* tera::Context and the three templates *)

\* std HashMap<String, _>::insert
Insert(m, k, v) == [x \in (DOMAIN m) \cup {k} |-> IF x = k THEN v ELSE m[x]]

RECURSIVE SortedStrs(_)
SortedStrs(S) ==
    IF S = {} THEN <<>>
    ELSE LET m == CHOOSE x \in S : \A y \in S \ {x} : StrLess(x, y)
         IN  <<m>> \o SortedStrs(S \ {m})

\* serde_json::Map (a BTreeMap<String, Value>) as its entries in key order
RECURSIVE BTreeInsert(_, _)
BTreeInsert(entries, kv) ==
    IF entries = <<>> THEN <<kv>>
    ELSE IF Head(entries)[1] = kv[1] THEN <<kv>> \o Tail(entries)
    ELSE IF StrLess(kv[1], Head(entries)[1]) THEN <<kv>> \o entries
    ELSE <<Head(entries)>> \o BTreeInsert(Tail(entries), kv)

RECURSIVE BTreeFrom(_, _)
BTreeFrom(kvs, acc) ==
    IF kvs = <<>> THEN acc ELSE BTreeFrom(Tail(kvs), BTreeInsert(acc, Head(kvs)))

\* the entries of a HashMap as its iterator yields them under RandomState seed
HashEntries(m, seed) ==
    LET ks == HashIter(SortedStrs(DOMAIN m), seed)
    IN  [i \in 1..Len(ks) |-> <<ks[i], m[ks[i]]>>]

\* a mutation of to_value: a serde_json::Map that keeps insertion order
to_value_preserve_order(m, seed) == HashEntries(m, seed)

\* Context::insert(key, &HashMap): serde_json::to_value serialises the map entry by
\* entry into a serde_json::Map
to_value(m, seed) == BTreeFrom(HashEntries(m, seed), <<>>)

Context(name, fields, originals, defaults, symbols, size) ==
    [name |-> name, fields |-> fields, originals |-> originals,
     defaults |-> defaults, symbols |-> symbols, size |-> size]

NoContext == Context(<<>>, <<>>, <<>>, <<>>, <<>>, 0)

\* originals[f] in the template
Lookup(entries, k) == (CHOOSE i \in 1..Len(entries) : entries[i][1] = k)

\* RECORD_TEMPLATE rendered
render_record(ctx) ==
    Lit("\n#[serde(default)]\n#[derive(Debug, Deserialize, Serialize)]\npub struct ")
    \o ctx.name \o Lit(" {")
    \o Concat([i \in 1..Len(ctx.fields) |->
          LET f == ctx.fields[i][1]
              type == ctx.fields[i][2]
              orig == ctx.originals[Lookup(ctx.originals, f)][2]
          IN  (IF f # orig
               THEN Lit("\n    #[serde(rename = \"") \o orig \o Lit("\")]")
               ELSE <<>>)
              \o Lit("\n    pub ") \o f \o Lit(": ") \o type \o Lit(",")])
    \o Lit("\n}\n\nimpl Default for ") \o ctx.name
    \o Lit(" {\n    fn default() -> ") \o ctx.name
    \o Lit(" {\n        ") \o ctx.name \o Lit(" {")
    \o Concat([i \in 1..Len(ctx.defaults) |->
          Lit("\n            ") \o ctx.defaults[i][1] \o Lit(": ")
          \o ctx.defaults[i][2] \o Lit(",")])
    \o Lit("\n        }\n    }\n}\n")

\* ENUM_TEMPLATE rendered
render_enum(ctx) ==
    Lit("\n#[derive(Debug, Deserialize, Serialize)]\npub enum ")
    \o ctx.name \o Lit(" {")
    \o Concat([i \in 1..Len(ctx.symbols) |->
          LET s == ctx.symbols[i][1]
              o == ctx.symbols[i][2]
          IN  (IF s # o
               THEN Lit("\n    #[serde(rename = \"") \o o \o Lit("\")]")
               ELSE <<>>)
              \o Lit("\n    ") \o s \o Lit(",")])
    \o Lit("\n}\n")

\* FIXED_TEMPLATE rendered
render_fixed(ctx) ==
    Lit("\npub type ") \o ctx.name \o Lit(" = [u8; ") \o ToDec(ctx.size) \o Lit("];\n")

-----------------------------------------------------------------------------
(* Templater *)

\* a generator's outcome: the Result it returns and the Context it rendered
Rendered(text, ctx) == [res |-> Ok(text), ctx |-> ctx]
Failed(err) == [res |-> err, ctx |-> NoContext]

\* Templater::str_fixed: the Context it builds
fixed_ctx(sch) ==
    Context(sanitize(to_camel_case(sch.name)), <<>>, <<>>, <<>>, <<>>, sch.size)

fixed_out(ctx) == Rendered(render_fixed(ctx), ctx)

\* Templater::str_fixed
str_fixed(sch) ==
    IF sch.kind = "Fixed" THEN fixed_out(fixed_ctx(sch))
    ELSE Failed(Err("Requires Schema::Fixed, found {:?}", sch))

\* the HashMap `s` of str_enum: normalised symbol -> symbol, collected in order
RECURSIVE CollectSymbols(_, _)
CollectSymbols(symbols, m) ==
    IF symbols = <<>> THEN m
    ELSE CollectSymbols(Tail(symbols),
                        Insert(m, sanitize(to_camel_case(Head(symbols))), Head(symbols)))

\* Templater::str_enum: the Context it builds
enum_ctx(sch, seed) ==
    Context(sanitize(to_camel_case(sch.name)), <<>>, <<>>, <<>>,
            to_value(CollectSymbols(sch.symbols, <<>>), seed), 0)

enum_out(ctx) == Rendered(render_enum(ctx), ctx)

\* Templater::str_enum
str_enum(sch, seed) ==
    IF sch.kind = "Enum"
    THEN IF Len(sch.symbols) = 0 THEN Failed(Err("No symbol for emum: {:?}", sch.name))
         ELSE enum_out(enum_ctx(sch, seed))
    ELSE Failed(Err("Requires Schema::Enum, found {:?}", sch))

\* a mutation of is_nullable: variants after the second are ignored
is_nullable_prefix(variants) == Len(variants) >= 2 /\ variants[1].kind = "Null"

\* the slice pattern [Schema::Null, inner] on union.variants()
is_nullable(variants) == Len(variants) = 2 /\ variants[1].kind = "Null"

\* one arm of str_record's match on the field's schema: the field's type and its
\* default expression
field_arm(field, gs, seed) ==
    LET sch == field.schema
        default == field.default
        Simple(type, ok, text, zero) ==
            IF default.t = "Absent" THEN Ok(<<type, zero>>)
            ELSE IF ok THEN Ok(<<type, text>>)
            ELSE Err("Invalid default: ", default)
        Both(t, d) == IF ~t.ok THEN t ELSE IF ~d.ok THEN d ELSE Ok(<<t.val, d.val>>)
    IN
    CASE sch.kind = "Boolean" ->
            Simple(Lit("bool"), default.t = "Bool",
                   IF default.b THEN Lit("true") ELSE Lit("false"), Lit("false"))
      [] sch.kind = "Int" ->
            Simple(Lit("i32"), default.t = "Number" /\ is_i64(default.n),
                   default.n.text, Lit("0"))
      [] sch.kind = "Long" ->
            Simple(Lit("i64"), default.t = "Number" /\ is_i64(default.n),
                   default.n.text, Lit("0"))
      [] sch.kind = "Float" ->
            Simple(Lit("f32"), default.t = "Number" /\ is_f64(default.n),
                   default.n.text, Lit("0"))
      [] sch.kind = "Double" ->
            Simple(Lit("f64"), default.t = "Number" /\ is_f64(default.n),
                   default.n.text, Lit("0"))
      [] sch.kind = "Bytes" ->
            Simple(Lit("Vec<u8>"), default.t = "String",
                   Lit("vec!") \o DebugBytes(into_bytes(default.s)), Lit("vec![]"))
      [] sch.kind = "String" ->
            Simple(Lit("String"), default.t = "String",
                   Lit("\"") \o default.s \o Lit("\".to_owned()"),
                   Lit("String::default()"))
      [] sch.kind = "Fixed" ->
            LET f_name == sanitize(to_camel_case(sch.name))
                bytes == into_bytes(default.s)
            IN  IF default.t = "String" /\ Len(bytes) # sch.size
                THEN Err("Invalid default: ", bytes)
                ELSE Simple(f_name, default.t = "String", DebugBytes(bytes),
                            f_name \o Lit("::default()"))
      [] sch.kind = "Array" ->
            IF sch.inner[1].kind = "Null" THEN Err("Invalid use of Schema::Null", <<>>)
            ELSE Both(array_type(sch.inner[1], gs, seed),
                      array_default(sch.inner[1], default))
      [] sch.kind = "Map" ->
            IF sch.inner[1].kind = "Null" THEN Err("Invalid use of Schema::Null", <<>>)
            ELSE Both(map_type(sch.inner[1], gs, seed),
                      map_default(sch.inner[1], default))
      [] sch.kind = "Record" ->
            LET r_name == sanitize(to_camel_case(sch.name))
            IN  Ok(<<r_name, r_name \o Lit("::default()")>>)
      [] sch.kind = "Enum" ->
            LET e_name == sanitize(to_camel_case(sch.name))
            IN  IF default.t = "String" THEN Ok(<<e_name, default.s>>)
                ELSE IF default.t = "Absent" /\ Len(sch.symbols) # 0
                THEN Ok(<<e_name, sanitize(to_camel_case(sch.symbols[1]))>>)
                ELSE Err("Invalid default: ", default)
      [] sch.kind = "Union" ->
            IF is_nullable(sch.inner)
            THEN Both(option_type(sch.inner[2], gs, seed),
                      option_default(sch.inner[2], default))
            ELSE Err("Unsupported Schema:::Union {:?}", sch.inner)
      [] sch.kind = "Null" -> Err("Invalid use of Schema::Null", <<>>)

RECURSIVE field_loop(_, _, _, _, _, _)

\* the body of the loop for one field, its arm already evaluated
field_step(fields, gs, seed, f, o, d, name_std, arm) ==
    IF ~arm.ok THEN arm
    ELSE field_loop(Tail(fields), gs, seed,
                    Insert(f, name_std, arm.val[1]),
                    Insert(o, name_std, Head(fields).name),
                    Insert(d, name_std, arm.val[2]))

\* the loop of str_record over the fields: the HashMaps f (field name -> type),
\* o (field name -> original name) and d (field name -> default), or the first error
field_loop(fields, gs, seed, f, o, d) ==
    IF fields = <<>> THEN Ok(<<f, o, d>>)
    ELSE field_step(fields, gs, seed, f, o, d,
                    sanitize(to_snake_case(Head(fields).name)),
                    field_arm(Head(fields), gs, seed))

\* Templater::str_record: the Context it builds (the HashMaps serialised)
record_ctx(name, f, o, d, seed) ==
    Context(to_camel_case(name), to_value(f, seed), to_value(o, seed),
            to_value(d, seed), <<>>, 0)

record_out(ctx) == Rendered(render_record(ctx), ctx)

\* the end of str_record, the loop done
record_end(sch, maps, seed) ==
    IF ~maps.ok THEN Failed(maps)
    ELSE record_out(record_ctx(sch.name, maps.val[1], maps.val[2], maps.val[3], seed))

\* Templater::str_record
str_record(sch, gs, seed) ==
    IF sch.kind = "Record"
    THEN record_end(sch, field_loop(sch.fields, gs, seed, <<>>, <<>>, <<>>), seed)
    ELSE Failed(Err("Requires Schema::Record, found {:?}", sch))

-----------------------------------------------------------------------------
(* Inputs: the schema trees and defaults the generators are run on *)

\* bounds of the inputs
MaxFields == 2
MaxSymbols == 2
MaxElems == 2
MaxEntries == 2

Txt ==
    "User" :> <<85, 115, 101, 114>>
    @@ "self" :> <<115, 101, 108, 102>>
    @@ "as" :> <<97, 115>>
    @@ "b" :> <<98>>
    @@ "a-bool" :> <<97, 45, 98, 111, 111, 108>>
    @@ "a_bool" :> <<97, 95, 98, 111, 111, 108>>
    @@ "Md5" :> <<77, 100, 53>>
    @@ "Colors" :> <<67, 111, 108, 111, 114, 115>>
    @@ "GREEN" :> <<71, 82, 69, 69, 78>>
    @@ "BLUE" :> <<66, 76, 85, 69>>
    @@ "green" :> <<103, 114, 101, 101, 110>>
    @@ "null" :> <<110, 117, 108, 108>>
    @@ "ab" :> <<97, 98>>
    @@ "abc" :> <<97, 98, 99>>
    @@ "Xs" :> <<88, 115>>
    @@ "Ys" :> <<89, 115>>
    @@ "12" :> <<49, 50>>
    @@ "-1" :> <<45, 49>>
    @@ "1.5" :> <<49, 46, 53>>
    @@ "2147483648" :> <<50, 49, 52, 55, 52, 56, 51, 54, 52, 56>>
    @@ "9223372036854775808" :> <<57, 50, 50, 51, 51, 55, 50, 48, 51, 54, 56, 53, 52, 55, 55, 53, 56, 48, 56>>
    @@ "\\u00FF" :> <<255>>

\* sequences over S of length at most n
SeqsUpTo(S, n) == UNION {[1..k -> S] : k \in 0..n}

PosInt(s) == VNumber(Num("PosInt", Txt[s]))
NegInt(s) == VNumber(Num("NegInt", Txt[s]))
Float(s) == VNumber(Num("Float", Txt[s]))

\* the schemas a container can hold, the node at address a
ItemSchemas(a) ==
    {Prim(k, a) : k \in Primitives \cup {"Null"}}
    \cup {Fixed(a, Txt["Md5"], 2),
          Enum(a, Txt["Colors"], <<Txt["GREEN"], Txt["BLUE"]>>),
          Enum(a, Txt["Colors"], <<>>),
          Record(a, Txt["User"], <<>>),
          Record(a, Txt["self"], <<>>),
          Array(a, Prim("Int", a + 1)),
          Map(a, Prim("Int", a + 1)),
          Union(a, <<Prim("Null", a + 1), Prim("Int", a + 2)>>)}

Containers ==
    {Array(1, x) : x \in ItemSchemas(2)}
    \cup {Map(1, x) : x \in ItemSchemas(2)}
    \cup {Union(1, <<Prim("Null", 4), x>>) : x \in ItemSchemas(2)}

OtherUnions ==
    {Union(1, <<>>),
     Union(1, <<Prim("Int", 2)>>),
     Union(1, <<Prim("Int", 2), Prim("Null", 3)>>),
     Union(1, <<Prim("Null", 2), Prim("Int", 3), Prim("String", 4)>>)}

ScalarDefaults ==
    {NoDefault, VNull, VBool(TRUE), PosInt("12"), NegInt("-1"), PosInt("2147483648"),
     PosInt("9223372036854775808"), Float("1.5"),
     VString(Txt["null"]), VString(Txt["GREEN"]), VString(Txt["ab"]),
     VString(Txt["abc"]), VString(Txt["\\u00FF"]), VObject}

Elems ==
    {PosInt("12"), NegInt("-1"), PosInt("2147483648"), VString(Txt["ab"]),
     VString(Txt["GREEN"]), VNull, VArray(<<PosInt("12")>>)}

ArrayDefaults == {VArray(a) : a \in SeqsUpTo(Elems, MaxElems)}

OneField(sch, default) ==
    Record(0, Txt["User"], <<RecordField(Txt["b"], sch, default)>>)

FieldNames == {Txt["as"], Txt["b"], Txt["a-bool"], Txt["a_bool"]}

\* records of up to MaxFields boolean fields or references to the record `self`
ManyFields ==
    {Record(0, n, [i \in DOMAIN fs |->
                      IF fs[i] = Txt["self"]
                      THEN RecordField(Txt["b"], Record(i, Txt["self"], <<>>), NoDefault)
                      ELSE RecordField(fs[i], Prim("Boolean", i), NoDefault)]) :
        n \in {Txt["User"], Txt["self"]},
        fs \in SeqsUpTo(FieldNames \cup {Txt["self"]}, MaxFields)}

Inputs ==
    {OneField(s, d) : s \in ItemSchemas(1), d \in ScalarDefaults}
    \cup {OneField(s, NoDefault) : s \in Containers \cup OtherUnions}
    \cup {OneField(Union(1, <<Prim("Null", 4), Prim(k, 2)>>), d) :
             k \in {"String", "Int"}, d \in ScalarDefaults}
    \cup {OneField(Array(1, x), d) :
             x \in ItemSchemas(2),
             d \in ArrayDefaults \cup {VNull, VString(Txt["ab"])}}
    \cup ManyFields
    \cup {Enum(0, n, ss) :
             n \in {Txt["Colors"], Txt["self"]},
             ss \in SeqsUpTo({Txt["GREEN"], Txt["BLUE"], Txt["green"], Txt["self"]},
                             MaxSymbols)}
    \cup {Fixed(0, Txt["Md5"], 2), Fixed(0, Txt["self"], 2)}

\* what the caller can put into the cache
Addrs == {1, 2, 3}
TypeNames == {Txt["Xs"], Txt["Ys"]}

\* the RandomState of a run's HashMaps
RandomStates == {0, 1}

-----------------------------------------------------------------------------
(* The generation run *)

NoResult == Err("", <<>>)

Init ==
    /\ schema \in Inputs
    /\ gen_state = GenState_new
    /\ pc = "setup"
    /\ which = ""
    /\ result = NoResult
    /\ result2 = NoResult
    /\ tera_ctx = NoContext
    /\ last_put = <<>>

\* the caller records the type name generated for a nested node; last_put keeps, for
\* each node, the name its most recent put_type call was given
PutType(a, t) ==
    /\ pc = "setup"
    /\ a \in DOMAIN gen_state \/ Cardinality(DOMAIN gen_state) < MaxEntries
    /\ gen_state' = put_type(gen_state, a, t)
    /\ last_put' = (a :> t) @@ last_put
    /\ UNCHANGED <<schema, pc, which, result, result2, tera_ctx>>

\* one call of a generator on the schema: the first run, or a second run of the same
\* generator with fresh HashMaps over the same cache content
Run(gen, out) ==
    /\ pc \in {"setup", "once"}
    /\ pc = "once" => which = gen
    /\ which' = gen
    /\ IF pc = "setup"
       THEN /\ pc' = "once"
            /\ result' = out.res
            /\ tera_ctx' = out.ctx
            /\ UNCHANGED result2
       ELSE /\ pc' = "twice"
            /\ result2' = out.res
            /\ UNCHANGED <<result, tera_ctx>>
    /\ UNCHANGED <<schema, gen_state, last_put>>

StrRecord == \E seed \in RandomStates : Run("str_record", str_record(schema, gen_state, seed))

StrEnum == \E seed \in RandomStates : Run("str_enum", str_enum(schema, seed))

StrFixed == Run("str_fixed", str_fixed(schema))

Next ==
    \/ \E a \in Addrs, t \in TypeNames : PutType(a, t)
    \/ StrRecord
    \/ StrEnum
    \/ StrFixed

Spec == Init /\ [][Next]_vars

-----------------------------------------------------------------------------
(* Properties of str_record's fields *)

\* str_record has returned (the first run)
RecordDone == pc # "setup" /\ which = "str_record" /\ schema.kind = "Record"

FieldIdx == IF schema.kind = "Record" THEN DOMAIN schema.fields ELSE {}

\* the identifier a field is emitted under
Key(i) == sanitize(to_snake_case(schema.fields[i].name))

\* no later field is emitted under the same identifier
Last(i) == \A j \in FieldIdx : j > i => Key(j) # Key(i)

\* the type and the default expression emitted for field i of a generated record
TypeOf(i) == tera_ctx.fields[Lookup(tera_ctx.fields, Key(i))][2]
DefaultOf(i) == tera_ctx.defaults[Lookup(tera_ctx.defaults, Key(i))][2]

InvalidDefaultValue == ~result.ok /\ result.msg = "Invalid default: "
MissingCachedType == ~result.ok /\ result.msg = "Didn't find schema {:?} in state {:?}"

\* the inner schema of a container field: Array's items, Map's values, the X of a
\* union [Null, X]
IsContainer(sch) ==
    \/ sch.kind \in {"Array", "Map"}
    \/ sch.kind = "Union" /\ Len(sch.inner) = 2 /\ sch.inner[1].kind = "Null"

InnerOf(sch) == IF sch.kind = "Union" THEN sch.inner[2] ELSE sch.inner[1]

\* the container type around an inner type name
ContainerOf(sch, t) ==
    CASE sch.kind = "Array" -> Lit("Vec<") \o t \o Lit(">")
      [] sch.kind = "Map" -> Lit("::std::collections::HashMap<String, ") \o t \o Lit(">")
      [] sch.kind = "Union" -> Lit("Option<") \o t \o Lit(">")

\* the name a named type (record, enum, fixed) is referenced by
Reference(name) ==
    LET n == to_camel_case(name) IN IF n \in RESERVED THEN n \o Lit("_") ELSE n

\* the inner type of container field i comes from the cache, and a cache without an
\* entry for the inner node is a MissingCachedType error
FromCache(i) ==
    LET inner == InnerOf(schema.fields[i].schema)
    IN  IF inner.addr \in DOMAIN gen_state
        THEN /\ ~MissingCachedType
             /\ result.ok /\ Last(i) =>
                   TypeOf(i) = ContainerOf(schema.fields[i].schema, gen_state[inner.addr])
        ELSE MissingCachedType

Field1 == schema.fields[1]
HasField1 == RecordDone /\ Len(schema.fields) >= 1

NoneValue == Lit("None")

\* a null literal: JSON null, or (as the spec's example writes it) the text "null"
NullLiteral(v) == v.t = "Null" \/ (v.t = "String" /\ v.s = Lit("null"))

\* C2: for a field whose schema is a nullable union [Null, X], the default resolves
\* to the none value exactly when the default is absent or the null literal, and every
\* other present default fails with InvalidDefaultValue.  (X is a primitive here, so
\* that the type always resolves.)
C2_NullableDefault ==
    (/\ HasField1
     /\ Field1.schema.kind = "Union"
     /\ Len(Field1.schema.inner) = 2
     /\ Field1.schema.inner[1].kind = "Null"
     /\ Field1.schema.inner[2].kind \in Primitives)
    => IF Field1.default.t = "Absent" \/ NullLiteral(Field1.default)
       THEN result.ok /\ (Last(1) => DefaultOf(1) = NoneValue)
       ELSE InvalidDefaultValue

\* the normalised form of an enum symbol: upper camel case, reserved words suffixed
Symbol(s) == LET n == to_camel_case(s) IN IF n \in RESERVED THEN n \o Lit("_") ELSE n

\* C3: for a field whose schema is an Enum, a present (string) default resolves to
\* the normalised form of the given symbol, an absent default to the normalised first
\* declared symbol, and an enum without symbols fails whether or not a default is
\* present.
C3_EnumDefault ==
    (HasField1 /\ Field1.schema.kind = "Enum")
    => IF Len(Field1.schema.symbols) = 0 THEN ~result.ok
       ELSE /\ Field1.default.t = "String" =>
                  result.ok /\ (Last(1) => DefaultOf(1) = Symbol(Field1.default.s))
            /\ Field1.default.t = "Absent" =>
                  result.ok /\ (Last(1) => DefaultOf(1) = Symbol(Field1.schema.symbols[1]))

EnumDone == pc # "setup" /\ which = "str_enum" /\ schema.kind = "Enum"
FixedDone == pc # "setup" /\ which = "str_fixed" /\ schema.kind = "Fixed"

\* the keys of a rendered map, in the order the template iterates them
KeysOf(entries) == [i \in 1..Len(entries) |-> entries[i][1]]

Distinct(s) == \A i, j \in 1..Len(s) : i # j => s[i] # s[j]

DeclaredKeys == [i \in 1..Len(schema.fields) |-> Key(i)]
DeclaredSymbols == [i \in 1..Len(schema.symbols) |-> Symbol(schema.symbols[i])]

\* C4: the generated record lists its fields, and the generated enum its symbols, in
\* the order of their declaration in the schema.  (Stated of schemas whose identifiers
\* are distinct after normalisation.)
C4_DeclarationOrder ==
    /\ (RecordDone /\ result.ok /\ Distinct(DeclaredKeys)) =>
          /\ KeysOf(tera_ctx.fields) = DeclaredKeys
          /\ KeysOf(tera_ctx.defaults) = DeclaredKeys
    /\ (EnumDone /\ result.ok /\ Distinct(DeclaredSymbols)) =>
          KeysOf(tera_ctx.symbols) = DeclaredSymbols

\* C5: every normalised identifier gets the suffix '_' exactly when it is a reserved
\* word: the declared name of a record, enum or fixed type, every reference to such
\* a type from a field, every field name and every enum symbol; so a record is
\* declared under the name that references to it use; and each field's wire name is
\* kept in the originals map.
C5_ReservedSuffix ==
    /\ (RecordDone /\ result.ok) =>
          /\ tera_ctx.name = Reference(schema.name)
          /\ \A i \in FieldIdx :
                LET ident == to_snake_case(schema.fields[i].name)
                    key == IF ident \in RESERVED THEN ident \o Lit("_") ELSE ident
                IN  /\ \E k \in 1..Len(tera_ctx.fields) : tera_ctx.fields[k][1] = key
                    /\ Last(i) =>
                          /\ \E k \in 1..Len(tera_ctx.originals) :
                                tera_ctx.originals[k] = <<key, schema.fields[i].name>>
                          /\ schema.fields[i].schema.kind \in {"Record", "Enum", "Fixed"} =>
                                TypeOf(i) = Reference(schema.fields[i].schema.name)
    /\ (EnumDone /\ result.ok) =>
          /\ tera_ctx.name = Reference(schema.name)
          /\ \A i \in 1..Len(schema.symbols) :
                \E k \in 1..Len(tera_ctx.symbols) :
                    tera_ctx.symbols[k][1] = Symbol(schema.symbols[i])
    /\ (FixedDone /\ result.ok) => tera_ctx.name = Reference(schema.name)

\* C6: a string default of a Bytes or Fixed(size) field is read one character as one
\* raw byte; a Fixed(size) default is accepted exactly when the string has size
\* characters, and any other length fails with InvalidDefaultValue.
C6_OneBytePerChar ==
    /\ (HasField1 /\ Field1.schema.kind = "Bytes" /\ Field1.default.t = "String") =>
          /\ result.ok
          /\ Last(1) => DefaultOf(1) = Lit("vec!") \o DebugBytes(Field1.default.s)
    /\ (HasField1 /\ Field1.schema.kind = "Fixed" /\ Field1.default.t = "String") =>
          IF Len(Field1.default.s) = Field1.schema.size
          THEN result.ok /\ (Last(1) => DefaultOf(1) = DebugBytes(Field1.default.s))
          ELSE InvalidDefaultValue

\* the rule of a field of schema sch with default v: what str_record's arm for sch
\* makes of it
AsField(sch, v) == field_arm(RecordField(Txt["b"], sch, v), gen_state, 0)

\* C7: an explicit array default of an Array field is converted element by element
\* by the rules of a field of the item schema with that element as its default (same
\* acceptance, same literal), order kept; an absent or non-array default is the empty
\* sequence, without an error.  (Stated where the array's type resolves.)
C7_ElementsAsFields ==
    (/\ HasField1
     /\ Field1.schema.kind = "Array"
     /\ Field1.schema.inner[1].kind # "Null"
     /\ ~MissingCachedType)
    => LET item == Field1.schema.inner[1]
           elems == Field1.default.a
       IN  IF Field1.default.t = "Array"
           THEN /\ result.ok <=> \A k \in 1..Len(elems) : AsField(item, elems[k]).ok
                /\ result.ok /\ Last(1) =>
                      DefaultOf(1) =
                          Lit("vec![")
                          \o Join([k \in 1..Len(elems) |-> AsField(item, elems[k]).val[2]],
                                  Lit(", "))
                          \o Lit("]")
           ELSE result.ok /\ (Last(1) => DefaultOf(1) = Lit("vec![]"))

\* the target type of a schema inside a nullable union (the spec's mapping table;
\* a nested container is known by its cache entry)
Resolved(x) ==
    CASE x.kind = "Boolean" -> Lit("bool")
      [] x.kind = "Int" -> Lit("i32")
      [] x.kind = "Long" -> Lit("i64")
      [] x.kind = "Float" -> Lit("f32")
      [] x.kind = "Double" -> Lit("f64")
      [] x.kind = "Bytes" -> Lit("Vec<u8>")
      [] x.kind = "String" -> Lit("String")
      [] x.kind \in {"Fixed", "Record", "Enum"} -> Reference(x.name)
      [] x.kind \in {"Array", "Map", "Union"} ->
            IF x.addr \in DOMAIN gen_state THEN gen_state[x.addr] ELSE <<>>

\* C8: a Union field is accepted only in the two-variant shape [Null, X], X not Null,
\* and then its type is optional(resolved(X)); every other shape (no variant, one,
\* three or more, Null not first, [X, Null]) fails and produces no declaration.
C8_UnionShape ==
    (HasField1 /\ Field1.schema.kind = "Union")
    => LET vs == Field1.schema.inner
           supported == Len(vs) = 2 /\ vs[1].kind = "Null" /\ vs[2].kind # "Null"
       IN  /\ ~supported => ~result.ok /\ result.val = <<>> /\ tera_ctx = NoContext
           /\ result.ok =>
                 /\ supported
                 /\ Last(1) => TypeOf(1) = Lit("Option<") \o Resolved(vs[2]) \o Lit(">")

\* a nullable union of a string, generated as Option<String>
C8_Witness ==
    /\ HasField1 /\ result.ok /\ Len(schema.fields) = 1
    /\ Field1.schema.kind = "Union"
    /\ Field1.schema.inner[2].kind = "String"
    /\ TypeOf(1) = Lit("Option<") \o Lit("String") \o Lit(">")

\* the zero value of a primitive kind, as Rust's Display prints it
Zero(kind) == IF kind = "Boolean" THEN Lit("false") ELSE Lit("0")

\* a JSON literal as text
Literal(v) == IF v.t = "Bool" THEN (IF v.b THEN Lit("true") ELSE Lit("false")) ELSE v.n.text

IsInteger(v) == v.t = "Number" /\ v.n.tag \in {"PosInt", "NegInt"}
IsFloat(v) == v.t = "Number" /\ v.n.tag = "Float"
FitsI64(v) == v.n.tag = "NegInt" \/ DecLeq(v.n.text, I64Max)

\* the rule of C9 for a primitive field, given which defaults count as integers
PrimitiveRule(Integer(_)) ==
    (HasField1 /\ Field1.schema.kind \in {"Boolean", "Int", "Long", "Float", "Double"})
    => LET kind == Field1.schema.kind
           d == Field1.default
           shape == CASE kind = "Boolean" -> d.t = "Bool"
                      [] kind \in {"Int", "Long"} -> Integer(d)
                      [] kind \in {"Float", "Double"} -> IsFloat(d)
       IN  IF d.t = "Absent" THEN result.ok /\ (Last(1) => DefaultOf(1) = Zero(kind))
           ELSE IF shape THEN result.ok /\ (Last(1) => DefaultOf(1) = Literal(d))
           ELSE InvalidDefaultValue

\* C9 as stated: a Boolean, Int, Long, Float or Double field without a default gets
\* the kind's zero value; a present default is accepted exactly when it is a JSON
\* boolean, integer, integer, float, float, and resolves to that literal; any other
\* default fails with InvalidDefaultValue.
C9_Original == PrimitiveRule(IsInteger)

\* C9, amended: the integer accepted for Int and Long is one that fits a signed
\* 64-bit value; a JSON integer above i64::MAX fails with InvalidDefaultValue.
C9_PrimitiveDefault == PrimitiveRule(LAMBDA v : IsInteger(v) /\ FitsI64(v))

\* an Int field whose default 12 is emitted as the literal 12
C9_Witness ==
    /\ HasField1 /\ result.ok /\ Len(schema.fields) = 1
    /\ Field1.schema.kind = "Int"
    /\ Field1.default = PosInt("12")
    /\ DefaultOf(1) = Txt["12"]

\* C10 as stated: two runs on the same schema, each with a fresh cache of the same
\* content, return the same text or the same error.
C10_Original == pc = "twice" => result2 = result

\* C10, amended: the two runs return the same text, or fail with the same error
\* message, except that the message of a MissingCachedType error prints the entries of
\* the cache in the HashMap's iteration order, which a fresh cache need not repeat.
C10_Deterministic ==
    pc = "twice" =>
        IF result.ok THEN result2 = result
        ELSE /\ ~result2.ok
             /\ result2.msg = result.msg
             /\ IF MissingCachedType
                THEN /\ result2.arg[1] = result.arg[1]
                     /\ {result2.arg[2][k] : k \in 1..Len(result2.arg[2])}
                            = {result.arg[2][k] : k \in 1..Len(result.arg[2])}
                ELSE result2.arg = result.arg

\* a record of two fields generated twice, with the same text
C10_Witness ==
    /\ pc = "twice" /\ which = "str_record" /\ schema.kind = "Record"
    /\ Len(schema.fields) = 2 /\ Key(1) # Key(2)
    /\ result.ok /\ result2 = result

-----------------------------------------------------------------------------
(* Properties of the type cache *)

\* the nodes of a schema tree
RECURSIVE NodesOf(_)
NodesOf(n) ==
    {n} \cup UNION {NodesOf(n.inner[i]) : i \in DOMAIN n.inner}
        \cup UNION {NodesOf(n.fields[i].schema) : i \in DOMAIN n.fields}

\* two distinct nodes of the same structure
Twins(m, n) == m.addr # n.addr /\ [m EXCEPT !.addr = 0] = [n EXCEPT !.addr = 0]

Nothing == Err("None", <<>>)

\* C11: the cache is keyed by the identity of a node, not by its structure: after any
\* sequence of put_type calls, get_type of a node returns the name given by the most
\* recent put_type for that same node, and nothing when no put_type was made for it,
\* whatever entries nodes of the same structure have (so a put_type on one node leaves
\* the entry of every other node as it was).
C11_KeyedByIdentity ==
    \A n \in NodesOf(schema) :
        get_type(gen_state, n) =
            IF n.addr \in DOMAIN last_put THEN Ok(last_put[n.addr]) ELSE Nothing

\* two boolean fields of the same structure, one with an entry and one without
C11_Witness ==
    /\ schema.kind = "Record" /\ Len(schema.fields) = 2
    /\ Twins(schema.fields[1].schema, schema.fields[2].schema)
    /\ get_type(gen_state, schema.fields[1].schema) = Ok(Txt["Ys"])
    /\ get_type(gen_state, schema.fields[2].schema) = Nothing

-----------------------------------------------------------------------------
(* Properties of the number of emitted items *)

\* the number of places of a text where a pattern occurs
Count(pat, text) ==
    Cardinality({i \in 1..(Len(text) + 1 - Len(pat)) :
                    SubSeq(text, i, i + Len(pat) - 1) = pat})

\* the lines of the templates: a field of the struct, an initializer of its Default,
\* the end of a variant of the enum
FieldLine == Lit("\n    pub ")
InitializerLine == Lit("\n            ")
VariantEnd == Lit(",") \o <<10>>

\* the names as the schema declares them
WireNames == [i \in 1..Len(schema.fields) |-> schema.fields[i].name]

\* C12: a generated record of n declared fields (of distinct wire names) has exactly n
\* fields, n original-name entries and n default initializers, and a generated enum of
\* n declared (distinct) symbols has exactly n variants, also when two of the names
\* normalise to the same identifier.
C12_OnePerDeclared ==
    /\ (RecordDone /\ result.ok /\ Distinct(WireNames)) =>
          /\ Count(FieldLine, result.val) = Len(schema.fields)
          /\ Len(tera_ctx.originals) = Len(schema.fields)
          /\ Count(InitializerLine, result.val) = Len(schema.fields)
    /\ (EnumDone /\ result.ok /\ Distinct(schema.symbols)) =>
          Count(VariantEnd, result.val) = Len(schema.symbols)

-----------------------------------------------------------------------------
(* Properties of the range of integer defaults *)

\* i32::MAX and the magnitude of i32::MIN
I32Max == <<50, 49, 52, 55, 52, 56, 51, 54, 52, 55>>
I32MinMagnitude == <<50, 49, 52, 55, 52, 56, 51, 54, 52, 56>>

\* a JSON integer within [-2^31, 2^31 - 1]
FitsI32(v) ==
    IF v.n.tag = "NegInt" THEN DecLeq(Tail(v.n.text), I32MinMagnitude)
    ELSE DecLeq(v.n.text, I32Max)

InvalidDefaultElement == ~result.ok /\ result.msg = "Invalid defaults: "

\* C13: every integer default that str_record accepts for an Int field, and every
\* integer that array_default accepts as an element of the default of an Array of Int,
\* lies within the range [-2^31, 2^31 - 1] of the emitted i32; an integer outside the
\* range is rejected with an invalid-default error.
C13_I32Range ==
    /\ (HasField1 /\ Field1.schema.kind = "Int" /\ IsInteger(Field1.default)) =>
          /\ result.ok => FitsI32(Field1.default)
          /\ ~FitsI32(Field1.default) => InvalidDefaultValue
    /\ (/\ HasField1 /\ Field1.schema.kind = "Array"
        /\ Field1.schema.inner[1].kind = "Int"
        /\ Field1.default.t = "Array"
        /\ \A k \in DOMAIN Field1.default.a : IsInteger(Field1.default.a[k])) =>
          LET fit == \A k \in DOMAIN Field1.default.a : FitsI32(Field1.default.a[k])
          IN  /\ result.ok => fit
              /\ ~fit => InvalidDefaultElement
=============================================================================
